---- MODULE Spec2Model ----
(***************************************************************************)
(* The profile controller of the mentormatch backend                       *)
(* (src/backend/dist/middleware/errorHandler.js, lines 54-448) as a state  *)
(* machine.  Every HTTP request runs in a request slot; every `await` of a *)
(* handler is one step, the synchronous code between two awaits belongs to *)
(* the step of the await before it.  The database is PostgreSQL at READ    *)
(* COMMITTED: a transaction's writes are kept in an overlay that is        *)
(* applied at COMMIT and dropped at ROLLBACK, a written row is locked      *)
(* until then, and a statement that needs a row locked by another          *)
(* transaction waits (its step is disabled).                               *)
(***************************************************************************)
EXTENDS Integers, Sequences, FiniteSets, TLC

VARIABLES users, profiles, txn, files, req, trace, ghost

vars == <<users, profiles, txn, files, req, trace, ghost>>

----------------------------------------------------------------------------
(* Values *)

\* SQL NULL / JS undefined of a text value
NULL == "<null>"
\* no row of that key in a table
NoRow == [absent |-> TRUE]
\* a transaction overlay entry for a key the transaction has not written
Untouched == [untouched |-> TRUE]
\* SQL NULL of the jsonb column assessment_results
SqlNull == [kind |-> "sqlnull"]
\* a jsonb value that is not an array (JSON.stringify of an object payload)
JsonObject == [kind |-> "object"]
\* a request body field that is absent
Absent == [absent |-> TRUE]

JsonArray(items) == [kind |-> "array", items |-> items]

UserIds == {"u1", "u2"}
Procs == {"r1", "r2"}
CustomIds == {"h1"}
Dates == {"d1", "d2"}
FileNames == {"f1"}

\* longest results payload of updateAssessment
MaxResults == 2
\* longest dates list of deleteAssessmentResults
MaxDates == 2
\* completed_assessments stays within -MaxAssessments .. MaxAssessments
MaxAssessments == 2

\* multer's limits.fileSize
MaxFileSize == 5242880

SeqsUpTo(S, n) == UNION {[1..k -> S] : k \in 0..n}

Email(u) == IF u = "u1" THEN "u1@x.org" ELSE "u2@x.org"
\* email.split('@')[0]
LocalPart(e) == IF e = "u1@x.org" THEN "u1" ELSE "u2"

\* x || null for a text value
OrNull(x) == IF x = NULL \/ x = "" THEN NULL ELSE x

\* String.prototype.trim on the display names of the model
Trim(s) == CASE s = "  " -> "" [] s = " ann " -> "ann" [] OTHER -> s

----------------------------------------------------------------------------
(* The schema.  The DDL is not part of the source files at hand: the       *)
(* primary key users.id and the unique user_profiles.user_id are what the  *)
(* handlers' ON CONFLICT clauses name; the rest is as section 3 of the     *)
(* specification states it.                                                *)

\* users.custom_user_id is UNIQUE
UniqueCustomIdConstraint == TRUE

\* a schema without the foreign key
MutNoForeignKey == FALSE

\* user_profiles.user_id REFERENCES users(id)
ForeignKeyConstraint == TRUE
\* column defaults of a row inserted by INSERT INTO user_profiles (user_id)
DefaultProfile == [major |-> NULL, interests |-> <<>>, completed_assessments |-> 0,
                   assessment_results |-> SqlNull]

NewUser(u) == [email |-> Email(u), display_name |-> LocalPart(Email(u)),
               photo_url |-> NULL, custom_user_id |-> NULL]

----------------------------------------------------------------------------
(* Transactions and visibility *)

NoTxn == [open |-> FALSE, users |-> [u \in UserIds |-> Untouched],
          profiles |-> [u \in UserIds |-> Untouched]]

\* the users table as a statement of request p sees it
VisUsers(p) == [u \in UserIds |->
                  IF txn[p].users[u] = Untouched THEN users[u] ELSE txn[p].users[u]]
VisProfiles(p) == [u \in UserIds |->
                  IF txn[p].profiles[u] = Untouched THEN profiles[u] ELSE txn[p].profiles[u]]

UserLockedByOther(p, u) == \E q \in Procs \ {p} : txn[q].users[u] # Untouched
ProfileLockedByOther(p, u) == \E q \in Procs \ {p} : txn[q].profiles[u] # Untouched

\* the LEFT JOIN of getProfile: the user's columns with the profile's, nulls
\* for a missing profile; the empty result for a missing user
LeftJoin(U, P, u) ==
    IF U[u] = NoRow THEN <<>>
    ELSE <<[user |-> U[u], profile |-> P[u]]>>

\* the inner JOIN of updateProfile
InnerJoin(U, P, u) ==
    IF U[u] = NoRow \/ P[u] = NoRow THEN <<>>
    ELSE <<[user |-> U[u], profile |-> P[u]]>>

----------------------------------------------------------------------------
(* What a request does, in order: the ghost record the claims are stated on *)

Outcomes == {"none", "db_error"}

Connect(err) == [ev |-> "connect", what |-> "pool.connect", err |-> err, status |-> 0]
Release == [ev |-> "release", what |-> "client.release", err |-> "none", status |-> 0]
Query(what, err) == [ev |-> "query", what |-> what, err |-> err, status |-> 0]
Respond(status, what) == [ev |-> "respond", what |-> what, err |-> "none", status |-> status]
Unlink(err) == [ev |-> "unlink", what |-> "fs.unlink", err |-> err, status |-> 0]
\* the handler's promise rejects: the exception leaves the handler
Uncaught == [ev |-> "uncaught", what |-> "throw", err |-> "none", status |-> 0]

IdleReq == [op |-> "none", pc |-> "idle", uid |-> "u1", body |-> Absent,
            loc |-> Absent, out |-> Absent]

Busy(p) == req[p].pc \notin {"idle", "done"}

\* a finished request's record is read in the state it finished in, and
\* dropped before anything else happens
Quiet == \A q \in Procs : req[q].pc # "done"

At(p, pc) == Quiet /\ req[p].pc = pc

NoGhost == [rival |-> FALSE, began |-> FALSE, clean |-> FALSE,
            snapU |-> [u \in UserIds |-> NoRow], snapP |-> [u \in UserIds |-> NoRow]]

\* a request arrives in a free slot; a request in progress that is joined
\* by a third one is no longer one of a pair
Arrive(p, op, u, body, pc) ==
    /\ At(p, "idle")
    /\ req' = [req EXCEPT ![p] = [op |-> op, pc |-> pc, uid |-> u, body |-> body,
                                  loc |-> Absent, out |-> Absent]]
    /\ trace' = [trace EXCEPT ![p] = <<>>]
    /\ ghost' = [q \in Procs |->
                   IF q = p THEN NoGhost ELSE [ghost[q] EXCEPT !.rival = FALSE]]

\* a request that is answered before its first await
Answered(p, op, u, body, evs) ==
    /\ At(p, "idle")
    /\ req' = [req EXCEPT ![p] = [op |-> op, pc |-> "done", uid |-> u, body |-> body,
                                  loc |-> Absent, out |-> Absent]]
    /\ trace' = [trace EXCEPT ![p] = evs]
    /\ ghost' = ghost

\* the finished request's record is dropped
Retire(p) ==
    /\ req[p].pc = "done"
    /\ req' = [req EXCEPT ![p] = IdleReq]
    /\ trace' = [trace EXCEPT ![p] = <<>>]
    /\ ghost' = [ghost EXCEPT ![p] = NoGhost]
    /\ UNCHANGED <<users, profiles, txn, files>>

\* the ghost snapshots: a committed write of request p ends the period in
\* which another request's snapshot is comparable with the tables
AfterWrite(p, U, P) ==
    [q \in Procs |->
        IF q # p /\ (U # users \/ P # profiles)
        THEN [ghost[q] EXCEPT !.clean = FALSE,
                              !.snapU = NoGhost.snapU, !.snapP = NoGhost.snapP]
        ELSE ghost[q]]

\* BEGIN: the ghost snapshot of the tables
AtBegin(p) ==
    [ghost EXCEPT ![p].began = TRUE, ![p].clean = TRUE,
                  ![p].snapU = users, ![p].snapP = profiles]

Goto(p, pc) == [req EXCEPT ![p].pc = pc]
GotoWith(p, pc, loc) == [req EXCEPT ![p].pc = pc, ![p].loc = loc]
Finish(p, out) == [req EXCEPT ![p].pc = "done", ![p].out = out]
Log(p, evs) == [trace EXCEPT ![p] = @ \o evs]

\* COMMIT: the overlay becomes the committed rows
Committed(tbl, over) == [u \in UserIds |-> IF over[u] = Untouched THEN tbl[u] ELSE over[u]]

CommitUsers(p) == Committed(users, txn[p].users)
CommitProfiles(p) == Committed(profiles, txn[p].profiles)

\* the catch block commits
MutRollbackUsers(p) == Committed(users, txn[p].users)

\* ROLLBACK (or the connection lost with the transaction open): the overlay
\* is dropped, the committed rows stay
RollbackUsers(p) == users
RollbackProfiles(p) == profiles

----------------------------------------------------------------------------
(* getProfile, lines 55-132 *)

\* the release in the try block instead of the finally
MutGetProfileCatch(err) == <<Query("ROLLBACK", err), Respond(500, "error")>>

\* the inner catch and finally (lines 122-127) and the outer catch (128-131)
GetProfileCatch(err) == <<Query("ROLLBACK", err), Release, Respond(500, "error")>>

\* the first-time path's tail (lines 118-119, 125-127)
GetProfileCreated == <<Query("COMMIT", "none"), Respond(200, "record"), Release>>

\* the existing-user path's tail (lines 121, 125-127)
GetProfileFound == <<Query("SELECT profile", "none"), Respond(200, "record"), Release>>

StartGetProfile(p, u) ==
    /\ Arrive(p, "getProfile", u, Absent, "gp_connect")
    /\ UNCHANGED <<users, profiles, txn, files>>

GetProfile_Connect(p) ==
    /\ At(p, "gp_connect")
    /\ \E err \in Outcomes :
         IF err = "none"
         THEN /\ req' = Goto(p, "gp_select1")
              /\ trace' = Log(p, <<Connect("none")>>)
         ELSE /\ req' = Finish(p, Absent)
              /\ trace' = Log(p, <<Connect(err), Respond(500, "error")>>)
    /\ UNCHANGED <<users, profiles, txn, files, ghost>>

GetProfile_Select1(p) ==
    /\ At(p, "gp_select1")
    /\ LET rows == LeftJoin(users, profiles, req[p].uid) IN
       \E err \in Outcomes :
         IF err # "none"
         THEN /\ req' = Goto(p, "gp_rollback")
              /\ trace' = Log(p, <<Query("SELECT profile", err)>>)
         ELSE IF rows = <<>>
         THEN /\ req' = Goto(p, "gp_begin")
              /\ trace' = Log(p, <<Query("SELECT profile", "none")>>)
         ELSE /\ req' = Finish(p, rows[1])
              /\ trace' = Log(p, GetProfileFound)
    /\ UNCHANGED <<users, profiles, txn, files, ghost>>

GetProfile_Begin(p) ==
    /\ At(p, "gp_begin")
    /\ \E err \in Outcomes :
         /\ IF err = "none"
            THEN /\ req' = Goto(p, "gp_insuser")
                 /\ txn' = [txn EXCEPT ![p].open = TRUE]
                 /\ ghost' = AtBegin(p)
            ELSE /\ req' = Goto(p, "gp_rollback")
                 /\ UNCHANGED <<txn, ghost>>
         /\ trace' = Log(p, <<Query("BEGIN", err)>>)
    /\ UNCHANGED <<users, profiles, files>>

\* INSERT INTO users ... ON CONFLICT (id) DO NOTHING
InsertUserIfAbsent(p, u) ==
    IF VisUsers(p)[u] = NoRow THEN [txn[p].users EXCEPT ![u] = NewUser(u)]
    ELSE txn[p].users

GetProfile_InsertUser(p) ==
    /\ At(p, "gp_insuser")
    /\ \E err \in Outcomes :
         /\ IF err = "none"
            THEN /\ ~UserLockedByOther(p, req[p].uid)
                 /\ req' = Goto(p, "gp_insprof")
                 /\ txn' = [txn EXCEPT ![p].users = InsertUserIfAbsent(p, req[p].uid)]
            ELSE /\ req' = Goto(p, "gp_rollback")
                 /\ UNCHANGED txn
         /\ trace' = Log(p, <<Query("INSERT users", err)>>)
    /\ UNCHANGED <<users, profiles, files, ghost>>

\* the profile row is not created
MutInsertProfileIfAbsent(p, u) == txn[p].profiles

\* INSERT INTO user_profiles (user_id) ... ON CONFLICT (user_id) DO NOTHING
InsertProfileIfAbsent(p, u) ==
    IF VisProfiles(p)[u] = NoRow THEN [txn[p].profiles EXCEPT ![u] = DefaultProfile]
    ELSE txn[p].profiles

\* the foreign key refuses a profile row of a user that has no row
ForeignKeyRefuses(p, u) ==
    ForeignKeyConstraint /\ VisProfiles(p)[u] = NoRow /\ VisUsers(p)[u] = NoRow

GetProfile_InsertProfile(p) ==
    /\ At(p, "gp_insprof")
    /\ \E err \in Outcomes :
         IF err # "none"
         THEN /\ req' = Goto(p, "gp_rollback")
              /\ trace' = Log(p, <<Query("INSERT user_profiles", err)>>)
              /\ UNCHANGED txn
         ELSE /\ ~ProfileLockedByOther(p, req[p].uid)
              /\ ~UserLockedByOther(p, req[p].uid)
              /\ IF ForeignKeyRefuses(p, req[p].uid)
                 THEN /\ req' = Goto(p, "gp_rollback")
                      /\ trace' = Log(p, <<Query("INSERT user_profiles", "fk_violation")>>)
                      /\ UNCHANGED txn
                 ELSE /\ req' = Goto(p, "gp_select2")
                      /\ trace' = Log(p, <<Query("INSERT user_profiles", "none")>>)
                      /\ txn' = [txn EXCEPT ![p].profiles =
                                     InsertProfileIfAbsent(p, req[p].uid)]
    /\ UNCHANGED <<users, profiles, files, ghost>>

GetProfile_Select2(p) ==
    /\ At(p, "gp_select2")
    /\ LET rows == LeftJoin(VisUsers(p), VisProfiles(p), req[p].uid) IN
       \E err \in Outcomes :
         /\ IF err = "none"
            THEN req' = GotoWith(p, "gp_commit", IF rows = <<>> THEN Absent ELSE rows[1])
            ELSE req' = Goto(p, "gp_rollback")
         /\ trace' = Log(p, <<Query("SELECT profile", err)>>)
    /\ UNCHANGED <<users, profiles, txn, files, ghost>>

GetProfile_Commit(p) ==
    /\ At(p, "gp_commit")
    /\ \E err \in Outcomes :
         IF err = "none"
         THEN /\ users' = CommitUsers(p)
              /\ profiles' = CommitProfiles(p)
              /\ txn' = [txn EXCEPT ![p] = NoTxn]
              /\ ghost' = AfterWrite(p, users', profiles')
              /\ req' = Finish(p, req[p].loc)
              /\ trace' = Log(p, GetProfileCreated)
         ELSE /\ req' = Goto(p, "gp_rollback")
              /\ trace' = Log(p, <<Query("COMMIT", err)>>)
              /\ UNCHANGED <<users, profiles, txn, ghost>>
    /\ UNCHANGED files

GetProfile_Rollback(p) ==
    /\ At(p, "gp_rollback")
    /\ \E err \in Outcomes :
         trace' = Log(p, GetProfileCatch(err))
    /\ users' = RollbackUsers(p)
    /\ profiles' = RollbackProfiles(p)
    /\ txn' = [txn EXCEPT ![p] = NoTxn]
    /\ ghost' = AfterWrite(p, users', profiles')
    /\ req' = Finish(p, Absent)
    /\ UNCHANGED files

GetProfile(p) ==
    \/ GetProfile_Connect(p)
    \/ GetProfile_Select1(p)
    \/ GetProfile_Begin(p)
    \/ GetProfile_InsertUser(p)
    \/ GetProfile_InsertProfile(p)
    \/ GetProfile_Select2(p)
    \/ GetProfile_Commit(p)
    \/ GetProfile_Rollback(p)

----------------------------------------------------------------------------
(* updateProfile, lines 134-203 *)

\* a user row other than u's that holds custom id v, as request p sees it
HoldsId(row, v) == row # NoRow /\ row # Untouched /\ row.custom_user_id = v

\* the unique index refuses v for user u
UniqueRefuses(p, u, v) ==
    /\ UniqueCustomIdConstraint
    /\ v # NULL
    /\ \E w \in UserIds \ {u} : HoldsId(VisUsers(p)[w], v)

\* another transaction has an uncommitted write on a row that holds v or is
\* about to: the unique index makes the statement wait for it
UniqueWaits(p, u, v) ==
    /\ UniqueCustomIdConstraint
    /\ v # NULL
    /\ \E w \in UserIds \ {u} : \E q \in Procs \ {p} :
          /\ txn[q].users[w] # Untouched
          /\ HoldsId(txn[q].users[w], v) \/ HoldsId(users[w], v)

UpdateProfileBodies ==
    {[display_name |-> "  ", custom_user_id |-> NULL, major |-> NULL, interests |-> Absent],
     [display_name |-> " ann ", custom_user_id |-> NULL, major |-> NULL, interests |-> Absent]}
    \cup {[display_name |-> " ann ", custom_user_id |-> c, major |-> "cs",
           interests |-> [some |-> <<"ai">>]] : c \in CustomIds}

\* !display_name || display_name.trim().length === 0
DisplayNameMissing(d) == d = NULL \/ d = "" \/ Trim(d) = ""

\* interests || []
OrEmptyList(x) == IF x = Absent THEN <<>> ELSE x.some

\* the inner catch and finally (lines 191-196) and the outer catch (197-202)
UpdateProfileCatch(err) == <<Query("ROLLBACK", err), Release, Respond(500, "error")>>

\* lines 189-190, 194-196
UpdateProfileDone == <<Query("COMMIT", "none"), Respond(200, "record"), Release>>

StartUpdateProfile(p, u, b) ==
    /\ IF DisplayNameMissing(b.display_name)
       THEN Answered(p, "updateProfile", u, b, <<Respond(400, "error")>>)
       ELSE Arrive(p, "updateProfile", u, b, "up_connect")
    /\ UNCHANGED <<users, profiles, txn, files>>

UpdateProfile_Connect(p) ==
    /\ At(p, "up_connect")
    /\ \E err \in Outcomes :
         IF err = "none"
         THEN /\ req' = Goto(p, "up_begin")
              /\ trace' = Log(p, <<Connect("none")>>)
         ELSE /\ req' = Finish(p, Absent)
              /\ trace' = Log(p, <<Connect(err), Respond(500, "error")>>)
    /\ UNCHANGED <<users, profiles, txn, files, ghost>>

UpdateProfile_Begin(p) ==
    /\ At(p, "up_begin")
    /\ \E err \in Outcomes :
         /\ IF err = "none"
            THEN /\ req' = Goto(p, "up_upduser")
                 /\ txn' = [txn EXCEPT ![p].open = TRUE]
                 /\ ghost' = AtBegin(p)
            ELSE /\ req' = Goto(p, "up_rollback")
                 /\ UNCHANGED <<txn, ghost>>
         /\ trace' = Log(p, <<Query("BEGIN", err)>>)
    /\ UNCHANGED <<users, profiles, files>>

\* UPDATE users SET custom_user_id = $1, display_name = $2 WHERE id = $3
SetUserNames(p, u, b) ==
    IF VisUsers(p)[u] = NoRow THEN txn[p].users
    ELSE [txn[p].users EXCEPT ![u] =
            [VisUsers(p)[u] EXCEPT !.custom_user_id = OrNull(b.custom_user_id),
                                   !.display_name = Trim(b.display_name)]]

UpdateProfile_UpdateUser(p) ==
    /\ At(p, "up_upduser")
    /\ LET u == req[p].uid
           v == OrNull(req[p].body.custom_user_id) IN
       \E err \in Outcomes :
         IF err # "none"
         THEN /\ req' = Goto(p, "up_rollback")
              /\ trace' = Log(p, <<Query("UPDATE users SET custom_user_id", err)>>)
              /\ UNCHANGED txn
         ELSE /\ ~UserLockedByOther(p, u)
              /\ VisUsers(p)[u] # NoRow => ~UniqueWaits(p, u, v)
              /\ IF VisUsers(p)[u] # NoRow /\ UniqueRefuses(p, u, v)
                 THEN /\ req' = Goto(p, "up_rollback")
                      /\ trace' = Log(p, <<Query("UPDATE users SET custom_user_id",
                                                 "unique_violation")>>)
                      /\ UNCHANGED txn
                 ELSE /\ req' = Goto(p, "up_updprof")
                      /\ trace' = Log(p, <<Query("UPDATE users SET custom_user_id", "none")>>)
                      /\ txn' = [txn EXCEPT ![p].users = SetUserNames(p, u, req[p].body)]
    /\ UNCHANGED <<users, profiles, files, ghost>>

\* UPDATE user_profiles SET major = $1, interests = $2 WHERE user_id = $3
SetProfileFields(p, u, b) ==
    IF VisProfiles(p)[u] = NoRow THEN txn[p].profiles
    ELSE [txn[p].profiles EXCEPT ![u] =
            [VisProfiles(p)[u] EXCEPT !.major = OrNull(b.major),
                                      !.interests = OrEmptyList(b.interests)]]

UpdateProfile_UpdateProfile(p) ==
    /\ At(p, "up_updprof")
    /\ \E err \in Outcomes :
         /\ IF err = "none"
            THEN /\ ~ProfileLockedByOther(p, req[p].uid)
                 /\ req' = Goto(p, "up_select")
                 /\ txn' = [txn EXCEPT ![p].profiles =
                                SetProfileFields(p, req[p].uid, req[p].body)]
            ELSE /\ req' = Goto(p, "up_rollback")
                 /\ UNCHANGED txn
         /\ trace' = Log(p, <<Query("UPDATE user_profiles", err)>>)
    /\ UNCHANGED <<users, profiles, files, ghost>>

UpdateProfile_Select(p) ==
    /\ At(p, "up_select")
    /\ LET rows == InnerJoin(VisUsers(p), VisProfiles(p), req[p].uid) IN
       \E err \in Outcomes :
         /\ IF err = "none"
            THEN req' = GotoWith(p, "up_commit", IF rows = <<>> THEN Absent ELSE rows[1])
            ELSE req' = Goto(p, "up_rollback")
         /\ trace' = Log(p, <<Query("SELECT profile", err)>>)
    /\ UNCHANGED <<users, profiles, txn, files, ghost>>

UpdateProfile_Commit(p) ==
    /\ At(p, "up_commit")
    /\ \E err \in Outcomes :
         IF err = "none"
         THEN /\ users' = CommitUsers(p)
              /\ profiles' = CommitProfiles(p)
              /\ txn' = [txn EXCEPT ![p] = NoTxn]
              /\ ghost' = AfterWrite(p, users', profiles')
              /\ req' = Finish(p, req[p].loc)
              /\ trace' = Log(p, UpdateProfileDone)
         ELSE /\ req' = Goto(p, "up_rollback")
              /\ trace' = Log(p, <<Query("COMMIT", err)>>)
              /\ UNCHANGED <<users, profiles, txn, ghost>>
    /\ UNCHANGED files

UpdateProfile_Rollback(p) ==
    /\ At(p, "up_rollback")
    /\ \E err \in Outcomes :
         trace' = Log(p, UpdateProfileCatch(err))
    /\ users' = RollbackUsers(p)
    /\ profiles' = RollbackProfiles(p)
    /\ txn' = [txn EXCEPT ![p] = NoTxn]
    /\ ghost' = AfterWrite(p, users', profiles')
    /\ req' = Finish(p, Absent)
    /\ UNCHANGED files

UpdateProfile(p) ==
    \/ UpdateProfile_Connect(p)
    \/ UpdateProfile_Begin(p)
    \/ UpdateProfile_UpdateUser(p)
    \/ UpdateProfile_UpdateProfile(p)
    \/ UpdateProfile_Select(p)
    \/ UpdateProfile_Commit(p)
    \/ UpdateProfile_Rollback(p)

----------------------------------------------------------------------------
(* deleteUser, lines 369-417 *)

\* `/uploads/profile-photos/${req.file.filename}`
PhotoUrl(f) == "/uploads/profile-photos/" \o f

\* the file path.join(process.cwd(), photoUrl) names
FileOfUrl(url) == {f \in FileNames : PhotoUrl(f) = url}

\* the catch and finally (lines 408-416): a failing ROLLBACK throws out of
\* the catch block, past the response
DeleteUserCatch(err) ==
    IF err = "none" THEN <<Query("ROLLBACK", "none"), Respond(500, "error"), Release>>
    ELSE <<Query("ROLLBACK", err), Release, Uncaught>>

\* lines 407, 414-416
DeleteUserDone == <<Respond(200, "message"), Release>>

\* no inner try/catch: the failure of unlink reaches the outer catch
MutDeleteUserUnlinked(err) ==
    IF err = "none" THEN <<Unlink(err), Respond(200, "message"), Release>>
    ELSE <<Unlink(err), Query("ROLLBACK", "none"), Respond(500, "error"), Release>>

\* the inner try/catch around fs.promises.unlink (lines 398-404)
DeleteUserUnlinked(err) == <<Unlink(err)>> \o DeleteUserDone

StartDeleteUser(p, u) ==
    /\ Arrive(p, "deleteUser", u, Absent, "du_connect")
    /\ UNCHANGED <<users, profiles, txn, files>>

\* pool.connect() is outside the try (line 375)
DeleteUser_Connect(p) ==
    /\ At(p, "du_connect")
    /\ \E err \in Outcomes :
         IF err = "none"
         THEN /\ req' = Goto(p, "du_begin")
              /\ trace' = Log(p, <<Connect("none")>>)
         ELSE /\ req' = Finish(p, Absent)
              /\ trace' = Log(p, <<Connect(err), Uncaught>>)
    /\ UNCHANGED <<users, profiles, txn, files, ghost>>

DeleteUser_Begin(p) ==
    /\ At(p, "du_begin")
    /\ \E err \in Outcomes :
         /\ IF err = "none"
            THEN /\ req' = Goto(p, "du_selphoto")
                 /\ txn' = [txn EXCEPT ![p].open = TRUE]
                 /\ ghost' = AtBegin(p)
            ELSE /\ req' = Goto(p, "du_rollback")
                 /\ UNCHANGED <<txn, ghost>>
         /\ trace' = Log(p, <<Query("BEGIN", err)>>)
    /\ UNCHANGED <<users, profiles, files>>

\* userResult.rows[0]?.photo_url
DeleteUser_SelectPhoto(p) ==
    /\ At(p, "du_selphoto")
    /\ LET row == VisUsers(p)[req[p].uid] IN
       \E err \in Outcomes :
         /\ IF err = "none"
            THEN req' = GotoWith(p, "du_delprof",
                                 IF row = NoRow THEN NULL ELSE row.photo_url)
            ELSE req' = Goto(p, "du_rollback")
         /\ trace' = Log(p, <<Query("SELECT photo_url", err)>>)
    /\ UNCHANGED <<users, profiles, txn, files, ghost>>

\* DELETE FROM user_profiles WHERE user_id = $1
DeleteProfileRow(p, u) ==
    IF VisProfiles(p)[u] = NoRow THEN txn[p].profiles
    ELSE [txn[p].profiles EXCEPT ![u] = NoRow]

DeleteUser_DeleteProfile(p) ==
    /\ At(p, "du_delprof")
    /\ \E err \in Outcomes :
         /\ IF err = "none"
            THEN /\ ~ProfileLockedByOther(p, req[p].uid)
                 /\ req' = Goto(p, "du_deluser")
                 /\ txn' = [txn EXCEPT ![p].profiles = DeleteProfileRow(p, req[p].uid)]
            ELSE /\ req' = Goto(p, "du_rollback")
                 /\ UNCHANGED txn
         /\ trace' = Log(p, <<Query("DELETE user_profiles", err)>>)
    /\ UNCHANGED <<users, profiles, files, ghost>>

\* DELETE FROM users WHERE id = $1
DeleteUserRow(p, u) ==
    IF VisUsers(p)[u] = NoRow THEN txn[p].users
    ELSE [txn[p].users EXCEPT ![u] = NoRow]

\* the foreign key refuses the deletion of a user row a profile row refers to
ForeignKeyKeeps(p, u) ==
    ForeignKeyConstraint /\ VisUsers(p)[u] # NoRow /\ VisProfiles(p)[u] # NoRow

DeleteUser_DeleteUser(p) ==
    /\ At(p, "du_deluser")
    /\ \E err \in Outcomes :
         IF err # "none"
         THEN /\ req' = Goto(p, "du_rollback")
              /\ trace' = Log(p, <<Query("DELETE users", err)>>)
              /\ UNCHANGED txn
         ELSE /\ ~UserLockedByOther(p, req[p].uid)
              /\ ~ProfileLockedByOther(p, req[p].uid)
              /\ IF ForeignKeyKeeps(p, req[p].uid)
                 THEN /\ req' = Goto(p, "du_rollback")
                      /\ trace' = Log(p, <<Query("DELETE users", "fk_violation")>>)
                      /\ UNCHANGED txn
                 ELSE /\ req' = Goto(p, "du_commit")
                      /\ trace' = Log(p, <<Query("DELETE users", "none")>>)
                      /\ txn' = [txn EXCEPT ![p].users = DeleteUserRow(p, req[p].uid)]
    /\ UNCHANGED <<users, profiles, files, ghost>>

DeleteUser_Commit(p) ==
    /\ At(p, "du_commit")
    /\ \E err \in Outcomes :
         IF err = "none"
         THEN /\ users' = CommitUsers(p)
              /\ profiles' = CommitProfiles(p)
              /\ txn' = [txn EXCEPT ![p] = NoTxn]
              /\ ghost' = [AfterWrite(p, users', profiles') EXCEPT
                              ![p].clean = TRUE, ![p].snapU = users', ![p].snapP = profiles']
              /\ IF req[p].loc # NULL
                 THEN /\ req' = Goto(p, "du_unlink")
                      /\ trace' = Log(p, <<Query("COMMIT", "none")>>)
                 ELSE /\ req' = Finish(p, Absent)
                      /\ trace' = Log(p, <<Query("COMMIT", "none")>> \o DeleteUserDone)
         ELSE /\ req' = Goto(p, "du_rollback")
              /\ trace' = Log(p, <<Query("COMMIT", err)>>)
              /\ UNCHANGED <<users, profiles, txn, ghost>>
    /\ UNCHANGED files

\* fs.promises.unlink: fails for a file that is not there, or for a
\* directory that cannot be written
DeleteUser_Unlink(p) ==
    /\ At(p, "du_unlink")
    /\ \E err \in {"none", "io_error"} :
         IF err = "none" /\ FileOfUrl(req[p].loc) \subseteq files /\ FileOfUrl(req[p].loc) # {}
         THEN /\ files' = files \ FileOfUrl(req[p].loc)
              /\ trace' = Log(p, DeleteUserUnlinked("none"))
         ELSE /\ files' = files
              /\ trace' = Log(p, DeleteUserUnlinked("io_error"))
    /\ req' = Finish(p, Absent)
    /\ UNCHANGED <<users, profiles, txn, ghost>>

DeleteUser_Rollback(p) ==
    /\ At(p, "du_rollback")
    /\ \E err \in Outcomes :
         trace' = Log(p, DeleteUserCatch(err))
    /\ users' = RollbackUsers(p)
    /\ profiles' = RollbackProfiles(p)
    /\ txn' = [txn EXCEPT ![p] = NoTxn]
    /\ ghost' = AfterWrite(p, users', profiles')
    /\ req' = Finish(p, Absent)
    /\ UNCHANGED files

DeleteUser(p) ==
    \/ DeleteUser_Connect(p)
    \/ DeleteUser_Begin(p)
    \/ DeleteUser_SelectPhoto(p)
    \/ DeleteUser_DeleteProfile(p)
    \/ DeleteUser_DeleteUser(p)
    \/ DeleteUser_Commit(p)
    \/ DeleteUser_Unlink(p)
    \/ DeleteUser_Rollback(p)

----------------------------------------------------------------------------
(* checkUsername, lines 419-447 *)

Usernames == {"h1", "ab cd"}

\* /^[a-zA-Z0-9_]{1,30}$/ on the usernames of the model
ValidUsername(s) == s \in {"h1"}

\* SELECT id FROM users WHERE custom_user_id = $1 AND id != $2
OtherHolders(u, v) == {w \in UserIds \ {u} : HoldsId(users[w], v)}

StartCheckUsername(p, u, s) ==
    /\ IF ~ValidUsername(s)
       THEN Answered(p, "checkUsername", u, s, <<Respond(400, "error")>>)
       ELSE Arrive(p, "checkUsername", u, s, "cu_connect")
    /\ UNCHANGED <<users, profiles, txn, files>>

CheckUsername_Connect(p) ==
    /\ At(p, "cu_connect")
    /\ \E err \in Outcomes :
         IF err = "none"
         THEN /\ req' = Goto(p, "cu_select")
              /\ trace' = Log(p, <<Connect("none")>>)
         ELSE /\ req' = Finish(p, Absent)
              /\ trace' = Log(p, <<Connect(err), Respond(500, "error")>>)
    /\ UNCHANGED <<users, profiles, txn, files, ghost>>

\* the try/finally (lines 433-442) inside the outer try/catch
CheckUsernameTail(err) ==
    IF err = "none"
    THEN <<Query("SELECT id WHERE custom_user_id", "none"), Respond(200, "available"), Release>>
    ELSE <<Query("SELECT id WHERE custom_user_id", err), Release, Respond(500, "error")>>

CheckUsername_Select(p) ==
    /\ At(p, "cu_select")
    /\ \E err \in Outcomes :
         /\ trace' = Log(p, CheckUsernameTail(err))
         /\ req' = Finish(p, IF err = "none"
                             THEN [available |-> OtherHolders(req[p].uid, req[p].body) = {}]
                             ELSE Absent)
    /\ UNCHANGED <<users, profiles, txn, files, ghost>>

CheckUsername(p) ==
    \/ CheckUsername_Connect(p)
    \/ CheckUsername_Select(p)

----------------------------------------------------------------------------
(* updateAssessment, lines 205-244 *)

Entries == {[date |-> d] : d \in Dates}

ResultsPayloads ==
    {JsonArray(items) : items \in SeqsUpTo(Entries, MaxResults)} \cup {JsonObject, Absent}

\* $n::jsonb of JSON.stringify(results): undefined is sent as NULL
ToJsonb(x) == IF x = Absent THEN SqlNull ELSE x

StartUpdateAssessment(p, u, r) ==
    /\ Arrive(p, "updateAssessment", u, r, "ua_check")
    /\ UNCHANGED <<users, profiles, txn, files>>

\* SELECT 1 FROM user_profiles WHERE user_id = $1
UpdateAssessment_Check(p) ==
    /\ At(p, "ua_check")
    /\ \E err \in Outcomes :
         IF err # "none"
         THEN /\ req' = Finish(p, Absent)
              /\ trace' = Log(p, <<Query("SELECT 1 FROM user_profiles", err),
                                   Respond(500, "error")>>)
         ELSE /\ req' = Goto(p, IF profiles[req[p].uid] = NoRow THEN "ua_insert"
                                                                 ELSE "ua_update")
              /\ trace' = Log(p, <<Query("SELECT 1 FROM user_profiles", "none")>>)
    /\ UNCHANGED <<users, profiles, txn, files, ghost>>

\* INSERT INTO user_profiles (user_id, assessment_results, completed_assessments)
\* VALUES ($1, $2::jsonb, 1)
NewAssessedProfile(r) ==
    [DefaultProfile EXCEPT !.assessment_results = ToJsonb(r), !.completed_assessments = 1]

\* what the INSERT of updateAssessment ends with
InsertAssessedRefused(p, u) ==
    IF profiles[u] # NoRow THEN "unique_violation"
    ELSE IF ForeignKeyRefuses(p, u) THEN "fk_violation"
    ELSE "none"

UpdateAssessment_Insert(p) ==
    /\ At(p, "ua_insert")
    /\ LET u == req[p].uid IN
       \E err \in Outcomes :
         IF err # "none"
         THEN /\ trace' = Log(p, <<Query("INSERT user_profiles", err), Respond(500, "error")>>)
              /\ req' = Finish(p, Absent)
              /\ UNCHANGED <<profiles, ghost>>
         ELSE /\ ~ProfileLockedByOther(p, u)
              /\ ~UserLockedByOther(p, u)
              /\ IF InsertAssessedRefused(p, u) # "none"
                 THEN /\ trace' = Log(p, <<Query("INSERT user_profiles",
                                                 InsertAssessedRefused(p, u)),
                                           Respond(500, "error")>>)
                      /\ req' = Finish(p, Absent)
                      /\ UNCHANGED <<profiles, ghost>>
                 ELSE /\ profiles' = [profiles EXCEPT ![u] = NewAssessedProfile(req[p].body)]
                      /\ ghost' = AfterWrite(p, users, profiles')
                      /\ trace' = Log(p, <<Query("INSERT user_profiles", "none"),
                                           Respond(200, "record")>>)
                      /\ req' = Finish(p, profiles'[u])
    /\ UNCHANGED <<users, txn, files>>

\* UPDATE user_profiles SET assessment_results = $1::jsonb,
\* completed_assessments = completed_assessments + 1 WHERE user_id = $2
Assessed(row, r) ==
    [row EXCEPT !.assessment_results = ToJsonb(r),
                !.completed_assessments = row.completed_assessments + 1]

UpdateAssessment_Update(p) ==
    /\ At(p, "ua_update")
    /\ LET u == req[p].uid IN
       \E err \in Outcomes :
         IF err # "none"
         THEN /\ trace' = Log(p, <<Query("UPDATE user_profiles SET assessment_results", err),
                                   Respond(500, "error")>>)
              /\ req' = Finish(p, Absent)
              /\ UNCHANGED <<profiles, ghost>>
         ELSE /\ ~ProfileLockedByOther(p, u)
              /\ profiles[u] # NoRow => profiles[u].completed_assessments < MaxAssessments
              /\ profiles' = IF profiles[u] = NoRow THEN profiles
                             ELSE [profiles EXCEPT ![u] = Assessed(profiles[u], req[p].body)]
              /\ ghost' = AfterWrite(p, users, profiles')
              /\ trace' = Log(p, <<Query("UPDATE user_profiles SET assessment_results", "none"),
                                   Respond(200, "record")>>)
              /\ req' = Finish(p, profiles'[u])
    /\ UNCHANGED <<users, txn, files>>

UpdateAssessment(p) ==
    \/ UpdateAssessment_Check(p)
    \/ UpdateAssessment_Insert(p)
    \/ UpdateAssessment_Update(p)

----------------------------------------------------------------------------
(* deleteAssessmentResults, lines 246-274 *)

\* the dates of the request body: a list, or nothing
DatesBodies == {[some |-> l] : l \in SeqsUpTo(Dates, MaxDates)} \cup {Absent}

\* result->>'date' != ANY($1): the date differs from some element of the list
DiffersFromAny(d, dates) == \E i \in 1..Len(dates) : d # dates[i]

\* SELECT jsonb_agg(result) FROM jsonb_array_elements(assessment_results) result
\* WHERE result->>'date' != ANY($1): NULL when no element is left
FilteredResults(ar, dates) ==
    LET items == IF ar = SqlNull THEN <<>> ELSE ar.items
        kept == SelectSeq(items, LAMBDA r : DiffersFromAny(r.date, dates))
    IN IF kept = <<>> THEN SqlNull ELSE JsonArray(kept)

\* completed_assessments - $2, with $2 = dates.length
Decremented(n, dates) == n - Len(dates)

AfterDelete(row, dates) ==
    [row EXCEPT !.assessment_results = FilteredResults(row.assessment_results, dates),
                !.completed_assessments = Decremented(row.completed_assessments, dates)]

\* the catch (lines 270-273) logs and throws again
DeleteAssessmentCatch(evs) == evs \o <<Uncaught>>

\* dates.length of an absent dates throws before the query is sent
StartDeleteAssessmentResults(p, u, d) ==
    /\ IF d = Absent
       THEN Answered(p, "deleteAssessmentResults", u, d, DeleteAssessmentCatch(<<>>))
       ELSE Arrive(p, "deleteAssessmentResults", u, d.some, "da_update")
    /\ UNCHANGED <<users, profiles, txn, files>>

DeleteAssessmentResults_Update(p) ==
    /\ At(p, "da_update")
    /\ LET u == req[p].uid
           what == "UPDATE user_profiles SET assessment_results = filtered" IN
       \E err \in Outcomes :
         IF err # "none"
         THEN /\ trace' = Log(p, DeleteAssessmentCatch(<<Query(what, err)>>))
              /\ req' = Finish(p, Absent)
              /\ UNCHANGED <<profiles, ghost>>
         ELSE /\ ~ProfileLockedByOther(p, u)
              /\ IF profiles[u] = NoRow
                 THEN /\ trace' = Log(p, <<Query(what, "none"), Respond(404, "error")>>)
                      /\ req' = Finish(p, Absent)
                      /\ UNCHANGED <<profiles, ghost>>
                 ELSE IF profiles[u].assessment_results = JsonObject
                 THEN \* jsonb_array_elements: cannot extract elements from an object
                      /\ trace' = Log(p, DeleteAssessmentCatch(<<Query(what, "not_an_array")>>))
                      /\ req' = Finish(p, Absent)
                      /\ UNCHANGED <<profiles, ghost>>
                 ELSE /\ Decremented(profiles[u].completed_assessments, req[p].body)
                            >= -MaxAssessments
                      /\ profiles' = [profiles EXCEPT ![u] = AfterDelete(profiles[u], req[p].body)]
                      /\ ghost' = [AfterWrite(p, users, profiles') EXCEPT
                                      ![p].snapP = profiles]
                      /\ trace' = Log(p, <<Query(what, "none"), Respond(200, "record")>>)
                      /\ req' = Finish(p, profiles'[u])
    /\ UNCHANGED <<users, txn, files>>

DeleteAssessmentResults(p) == DeleteAssessmentResults_Update(p)

----------------------------------------------------------------------------
(* updateCustomId, lines 276-310, and checkCustomId, lines 312-331 *)

\* an overlapping updateCustomId of another user with the same id succeeded
RivalWon(g, p, u, v) ==
    [q \in Procs |->
        IF /\ q # p /\ Busy(q) /\ req[q].op = "updateCustomId"
           /\ req[q].uid # u /\ v # NULL /\ req[q].body = v
        THEN [g[q] EXCEPT !.rival = TRUE]
        ELSE g[q]]

StartUpdateCustomId(p, u, v) ==
    /\ Arrive(p, "updateCustomId", u, v, "uc_check")
    /\ UNCHANGED <<users, profiles, txn, files>>

\* lines 282-289
UpdateCustomId_Check(p) ==
    /\ At(p, "uc_check")
    /\ LET what == "SELECT id WHERE custom_user_id" IN
       \E err \in Outcomes :
         IF err # "none"
         THEN /\ trace' = Log(p, <<Query(what, err), Respond(500, "error")>>)
              /\ req' = Finish(p, Absent)
         ELSE IF OtherHolders(req[p].uid, req[p].body) # {}
         THEN /\ trace' = Log(p, <<Query(what, "none"), Respond(400, "error")>>)
              /\ req' = Finish(p, Absent)
         ELSE /\ trace' = Log(p, <<Query(what, "none")>>)
              /\ req' = Goto(p, "uc_update")
    /\ UNCHANGED <<users, profiles, txn, files, ghost>>

\* UPDATE users SET custom_user_id = $1 WHERE id = $2
WithCustomId(row, v) == [row EXCEPT !.custom_user_id = v]

\* lines 292-300, and the catch (301-309)
UpdateCustomId_Update(p) ==
    /\ At(p, "uc_update")
    /\ LET u == req[p].uid
           v == req[p].body
           what == "UPDATE users SET custom_user_id" IN
       \E err \in Outcomes :
         IF err # "none"
         THEN /\ trace' = Log(p, <<Query(what, err), Respond(500, "error")>>)
              /\ req' = Finish(p, Absent)
              /\ UNCHANGED <<users, ghost>>
         ELSE /\ ~UserLockedByOther(p, u)
              /\ users[u] # NoRow => ~UniqueWaits(p, u, v)
              /\ IF users[u] # NoRow /\ UniqueRefuses(p, u, v)
                 THEN /\ trace' = Log(p, <<Query(what, "unique_violation"),
                                           Respond(500, "error")>>)
                      /\ req' = Finish(p, Absent)
                      /\ UNCHANGED <<users, ghost>>
                 ELSE /\ users' = IF users[u] = NoRow THEN users
                                  ELSE [users EXCEPT ![u] = WithCustomId(users[u], v)]
                      /\ ghost' = RivalWon(AfterWrite(p, users', profiles), p, u, v)
                      /\ trace' = Log(p, <<Query(what, "none"), Respond(200, "record")>>)
                      /\ req' = Finish(p, users'[u])
    /\ UNCHANGED <<profiles, txn, files>>

UpdateCustomId(p) ==
    \/ UpdateCustomId_Check(p)
    \/ UpdateCustomId_Update(p)

\* if (!custom_user_id) return res.json({ available: true })
StartCheckCustomId(p, u, v) ==
    /\ IF OrNull(v) = NULL
       THEN Answered(p, "checkCustomId", u, v, <<Respond(200, "available")>>)
       ELSE Arrive(p, "checkCustomId", u, v, "cc_select")
    /\ UNCHANGED <<users, profiles, txn, files>>

CheckCustomId_Select(p) ==
    /\ At(p, "cc_select")
    /\ LET what == "SELECT id WHERE custom_user_id" IN
       \E err \in Outcomes :
         IF err = "none"
         THEN /\ trace' = Log(p, <<Query(what, "none"), Respond(200, "available")>>)
              /\ req' = Finish(p, [available |-> OtherHolders(req[p].uid, req[p].body) = {}])
         ELSE /\ trace' = Log(p, <<Query(what, err), Respond(500, "error")>>)
              /\ req' = Finish(p, Absent)
    /\ UNCHANGED <<users, profiles, txn, files, ghost>>

CheckCustomId(p) == CheckCustomId_Select(p)

----------------------------------------------------------------------------
(* updateProfilePhoto, lines 333-367, and the upload middleware, lines 25-50 *)

AllowedTypes == {"image/jpeg", "image/png", "image/gif"}

GoodPhoto == [mimetype |-> "image/png", size |-> 1024]

PhotoFiles == {Absent, GoodPhoto,
               [mimetype |-> "application/pdf", size |-> 1024],
               [mimetype |-> "image/png", size |-> MaxFileSize + 1]}

\* fileFilter and limits.fileSize
UploadRefused(f) == f.mimetype \notin AllowedTypes \/ f.size > MaxFileSize

StartUpdateProfilePhoto(p, u, f) ==
    /\ Arrive(p, "updateProfilePhoto", u, f, "pp_upload")
    /\ UNCHANGED <<users, profiles, txn, files>>

\* upload(req, res, callback): the file is stored under a name no stored file
\* has; the store fails when it can take no more
UpdateProfilePhoto_Upload(p) ==
    /\ At(p, "pp_upload")
    /\ LET f == req[p].body IN
       IF f = Absent
       THEN /\ trace' = Log(p, <<Respond(400, "error")>>)
            /\ req' = Finish(p, Absent)
            /\ files' = files
       ELSE IF UploadRefused(f) \/ FileNames \subseteq files
       THEN /\ trace' = Log(p, <<Respond(400, "error")>>)
            /\ req' = Finish(p, Absent)
            /\ files' = files
       ELSE \E name \in FileNames \ files, err \in {"none", "io_error"} :
            IF err = "none"
            THEN /\ files' = files \cup {name}
                 /\ req' = GotoWith(p, "pp_update", PhotoUrl(name))
                 /\ trace' = trace
            ELSE /\ trace' = Log(p, <<Respond(400, "error")>>)
                 /\ req' = Finish(p, Absent)
                 /\ files' = files
    /\ UNCHANGED <<users, profiles, txn, ghost>>

\* UPDATE users SET photo_url = $1 WHERE id = $2
WithPhoto(row, url) == [row EXCEPT !.photo_url = url]

UpdateProfilePhoto_Update(p) ==
    /\ At(p, "pp_update")
    /\ LET u == req[p].uid IN
       \E err \in Outcomes :
         IF err # "none"
         THEN /\ trace' = Log(p, <<Query("UPDATE users SET photo_url", err),
                                   Respond(500, "error")>>)
              /\ req' = Finish(p, Absent)
              /\ UNCHANGED <<users, ghost>>
         ELSE /\ ~UserLockedByOther(p, u)
              /\ users' = IF users[u] = NoRow THEN users
                          ELSE [users EXCEPT ![u] = WithPhoto(users[u], req[p].loc)]
              /\ ghost' = AfterWrite(p, users', profiles)
              /\ trace' = Log(p, <<Query("UPDATE users SET photo_url", "none"),
                                   Respond(200, "photo_url")>>)
              /\ req' = Finish(p, [photo_url |-> req[p].loc])
    /\ UNCHANGED <<profiles, txn, files>>

UpdateProfilePhoto(p) ==
    \/ UpdateProfilePhoto_Upload(p)
    \/ UpdateProfilePhoto_Update(p)

----------------------------------------------------------------------------

Init ==
    /\ users = [u \in UserIds |-> NoRow]
    /\ profiles = [u \in UserIds |-> NoRow]
    /\ txn = [p \in Procs |-> NoTxn]
    /\ files = {}
    /\ req = [p \in Procs |-> IdleReq]
    /\ trace = [p \in Procs |-> <<>>]
    /\ ghost = [p \in Procs |-> NoGhost]

NextGet ==
    \E p \in Procs :
        \/ \E u \in UserIds : StartGetProfile(p, u)
        \/ GetProfile(p)
        \/ Retire(p)

SpecGet == Init /\ [][NextGet]_vars

\* the requests of one user
OneUser == {"u1"}
\* one request at a time
OneSlot == {"r1"}

\* the transactional handlers, with the photo upload that gives deleteUser
\* a file to remove
NextTxn ==
    \E p \in Procs, u \in OneUser :
        \/ StartGetProfile(p, u)
        \/ GetProfile(p)
        \/ \E b \in UpdateProfileBodies : StartUpdateProfile(p, u, b)
        \/ UpdateProfile(p)
        \/ StartDeleteUser(p, u)
        \/ DeleteUser(p)
        \/ \E s \in Usernames : StartCheckUsername(p, u, s)
        \/ CheckUsername(p)
        \/ StartUpdateProfilePhoto(p, u, GoodPhoto)
        \/ UpdateProfilePhoto(p)
        \/ Retire(p)

SpecTxn == Init /\ [][NextTxn]_vars

\* both users have fetched their profile once
InitIds ==
    /\ users = [u \in UserIds |-> NewUser(u)]
    /\ profiles = [u \in UserIds |-> DefaultProfile]
    /\ txn = [p \in Procs |-> NoTxn]
    /\ files = {}
    /\ req = [p \in Procs |-> IdleReq]
    /\ trace = [p \in Procs |-> <<>>]
    /\ ghost = [p \in Procs |-> NoGhost]

\* the handlers that write custom_user_id, for two users
NextIds ==
    \E p \in Procs :
        \/ \E u \in UserIds, v \in CustomIds \cup {NULL} : StartUpdateCustomId(p, u, v)
        \/ UpdateCustomId(p)
        \/ \E u \in UserIds, b \in UpdateProfileBodies : StartUpdateProfile(p, u, b)
        \/ UpdateProfile(p)
        \/ Retire(p)

SpecIds == InitIds /\ [][NextIds]_vars

\* the handlers that write assessment_results and completed_assessments,
\* one request at a time
NextAssess ==
    \E p \in OneSlot, u \in OneUser :
        \/ StartGetProfile(p, u)
        \/ GetProfile(p)
        \/ \E r \in ResultsPayloads : StartUpdateAssessment(p, u, r)
        \/ UpdateAssessment(p)
        \/ \E d \in DatesBodies : StartDeleteAssessmentResults(p, u, d)
        \/ DeleteAssessmentResults(p)
        \/ Retire(p)

SpecAssess == Init /\ [][NextAssess]_vars

\* the handlers that create and delete rows
NextLife ==
    \E p \in Procs, u \in OneUser :
        \/ StartGetProfile(p, u)
        \/ GetProfile(p)
        \/ StartUpdateAssessment(p, u, JsonArray(<<[date |-> "d1"]>>))
        \/ UpdateAssessment(p)
        \/ StartDeleteUser(p, u)
        \/ DeleteUser(p)
        \/ StartUpdateProfilePhoto(p, u, GoodPhoto)
        \/ UpdateProfilePhoto(p)
        \/ Retire(p)

SpecLife == Init /\ [][NextLife]_vars

\* every handler of the controller, one request at a time
Next ==
    \E p \in OneSlot, u \in OneUser :
        \/ StartGetProfile(p, u)
        \/ GetProfile(p)
        \/ \E b \in UpdateProfileBodies : StartUpdateProfile(p, u, b)
        \/ UpdateProfile(p)
        \/ \E r \in ResultsPayloads : StartUpdateAssessment(p, u, r)
        \/ UpdateAssessment(p)
        \/ \E d \in DatesBodies : StartDeleteAssessmentResults(p, u, d)
        \/ DeleteAssessmentResults(p)
        \/ \E v \in CustomIds \cup {NULL} : StartUpdateCustomId(p, u, v)
        \/ UpdateCustomId(p)
        \/ \E v \in CustomIds \cup {NULL} : StartCheckCustomId(p, u, v)
        \/ CheckCustomId(p)
        \/ \E f \in PhotoFiles : StartUpdateProfilePhoto(p, u, f)
        \/ UpdateProfilePhoto(p)
        \/ StartDeleteUser(p, u)
        \/ DeleteUser(p)
        \/ \E s \in Usernames : StartCheckUsername(p, u, s)
        \/ CheckUsername(p)
        \/ Retire(p)

Spec == Init /\ [][Next]_vars

----------------------------------------------------------------------------
(* Reading a request's record *)

Done(p) == req[p].pc = "done"
Events(p, kind) == SelectSeq(trace[p], LAMBDA e : e.ev = kind)
Responses(p) == Events(p, "respond")
\* the status of the response, 0 for none
Status(p) == IF Responses(p) = <<>> THEN 0 ELSE Responses(p)[Len(Responses(p))].status
Has(p, what, err) == \E i \in 1..Len(trace[p]) : trace[p][i].what = what /\ trace[p][i].err = err
\* a database statement or the connection acquisition failed
Failed(p) ==
    \E i \in 1..Len(trace[p]) :
        trace[p][i].ev \in {"query", "connect"} /\ trace[p][i].err # "none"
\* a statement other than ROLLBACK failed after BEGIN
FailedAfterBegin(p) ==
    \E i, j \in 1..Len(trace[p]) :
        /\ i < j
        /\ trace[p][i] = Query("BEGIN", "none")
        /\ trace[p][j].ev = "query" /\ trace[p][j].err # "none"
        /\ trace[p][j].what # "ROLLBACK"
\* event `first` comes before every event `then`
Precedes(p, first(_), then(_)) ==
    \A k \in 1..Len(trace[p]) :
        then(trace[p][k]) => \E r \in 1..(k - 1) : first(trace[p][r])

----------------------------------------------------------------------------
(* Claims *)

UniqueCustomIds ==
    \A u, w \in UserIds :
        (u # w /\ users[u] # NoRow /\ users[w] # NoRow
              /\ users[u].custom_user_id # NULL)
        => users[u].custom_user_id # users[w].custom_user_id

\* the non-null custom id the request writes, NULL for none
WritesId(p) ==
    IF req[p].op = "updateProfile" THEN OrNull(req[p].body.custom_user_id)
    ELSE IF req[p].op = "updateCustomId" THEN req[p].body
    ELSE NULL

CheckedBeforeWrite(p) ==
    WritesId(p) # NULL
    => Precedes(p, LAMBDA e : e.what = "SELECT id WHERE custom_user_id" /\ e.err = "none",
                   LAMBDA e : e.what = "UPDATE users SET custom_user_id")

\* C1: no two user rows hold the same non-null custom_user_id, and every
\* statement that sets custom_user_id comes after a uniqueness check made by
\* the same request.  (Stated as the claim; updateProfile writes unchecked.)
C1_UniqueAndCheckedBeforeWrite ==
    UniqueCustomIds /\ \A p \in Procs : CheckedBeforeWrite(p)

\* C2: an updateCustomId that overlaps with another user's successful
\* updateCustomId of the same id, and that meets no database outage, answers
\* 400.  (Stated as the claim; the loser of the race answers 500.)
C2_LoserReportsConflict ==
    \A p \in Procs :
        (/\ Done(p) /\ req[p].op = "updateCustomId"
         /\ ghost[p].rival
         /\ ~\E i \in 1..Len(trace[p]) : trace[p][i].err = "db_error")
        => Status(p) = 400

ItemsOf(ar) == IF ar = SqlNull THEN <<>> ELSE ar.items
Range(seq) == {seq[i] : i \in 1..Len(seq)}

\* C3: deleteAssessmentResults leaves the previous collection without the
\* entries whose date is in dates, the others in their order.  (Stated as
\* the claim; the query keeps an entry whose date differs from SOME element.)
C3_RemovesExactlyTheDates ==
    \A p \in Procs :
        (Done(p) /\ req[p].op = "deleteAssessmentResults" /\ Status(p) = 200)
        => ItemsOf(req[p].out.assessment_results)
             = SelectSeq(ItemsOf(ghost[p].snapP[req[p].uid].assessment_results),
                         LAMBDA r : r.date \notin Range(req[p].body))

\* C4: a getProfile that answers 200 returns the counters of a fresh
\* profile, and the user has a User row and a UserProfile row.
C4_FreshProfile ==
    \A p \in Procs :
        (Done(p) /\ req[p].op = "getProfile" /\ Status(p) = 200)
        => (/\ users[req[p].uid] # NoRow
            /\ profiles[req[p].uid] # NoRow
            /\ req[p].out.profile # NoRow
            /\ req[p].out.profile.completed_assessments = 0
            /\ req[p].out.profile.interests = <<>>
            /\ req[p].out.profile.assessment_results = SqlNull)

\* a getProfile took the creating path while another request committed the rows
C4_Witness ==
    \E p \in Procs :
        /\ Done(p) /\ req[p].op = "getProfile" /\ Status(p) = 200
        /\ Has(p, "INSERT user_profiles", "none")
        /\ ghost[p].began /\ ~ghost[p].clean

\* C5: completed_assessments is never negative.  (Stated as the claim.)
C5_CounterNonNegative ==
    \A u \in UserIds :
        profiles[u] # NoRow => profiles[u].completed_assessments >= 0

\* C6: a request in which a statement, the connection acquisition or the
\* ROLLBACK failed ends with exactly one response, whose body has an error
\* field, and with no exception leaving the handler.  (Stated as the claim.)
C6_FailureAnswersWithError ==
    \A p \in Procs :
        (Done(p) /\ Failed(p))
        => (/\ Len(Responses(p)) = 1
            /\ Responses(p)[1].what = "error"
            /\ Events(p, "uncaught") = <<>>)

\* C7: every UserProfile row has its User row.
C7_ProfileHasUser ==
    \A u \in UserIds : profiles[u] # NoRow => users[u] # NoRow

\* updateAssessment tried to create the profile of a user that has no row
C7_Witness ==
    \E p \in Procs :
        /\ Done(p) /\ req[p].op = "updateAssessment"
        /\ Has(p, "INSERT user_profiles", "fk_violation")
        /\ users[req[p].uid] = NoRow /\ profiles[req[p].uid] = NoRow

CommittedBeforeUnlink(p) ==
    Precedes(p, LAMBDA e : e = Query("COMMIT", "none"), LAMBDA e : e.ev = "unlink")

UnlinkFailureSwallowed(p) ==
    /\ ~\E i \in 1..Len(trace[p]) : trace[p][i].what = "ROLLBACK"
    /\ Len(Responses(p)) = 1
    /\ Status(p) = 200
    /\ Responses(p)[1].what = "message"
    /\ (ghost[p].clean => (users = ghost[p].snapU /\ profiles = ghost[p].snapP))

\* C8: deleteUser removes the file only after COMMIT succeeded; when the
\* removal fails there is no ROLLBACK, the one response is 200, and the tables
\* are as the COMMIT left them (as long as no other request wrote).
C8_DeleteSurvivesUnlinkFailure ==
    \A p \in Procs :
        (req[p].op = "deleteUser" /\ Events(p, "unlink") # <<>>)
        => (/\ CommittedBeforeUnlink(p)
            /\ (Has(p, "fs.unlink", "io_error") => UnlinkFailureSwallowed(p)))

C8_Witness ==
    \E p \in Procs :
        /\ Done(p) /\ req[p].op = "deleteUser"
        /\ Has(p, "fs.unlink", "io_error")
        /\ Has(p, "DELETE users", "none")
        /\ ghost[p].clean
        /\ users[req[p].uid] = NoRow /\ profiles[req[p].uid] = NoRow
        /\ Status(p) = 200

PoolClients == {"getProfile", "updateProfile", "deleteUser", "checkUsername"}
Acquired(p) == Len(SelectSeq(trace[p], LAMBDA e : e = Connect("none")))
Released(p) == Len(Events(p, "release"))

\* C9: in getProfile, updateProfile, deleteUser and checkUsername a
\* connection is never released more often than acquired, and a finished
\* request has released the connection it acquired exactly once.
C9_ReleasedExactlyOnce ==
    \A p \in Procs :
        (req[p].op \in PoolClients)
        => (/\ Released(p) <= Acquired(p)
            /\ (Done(p) => Released(p) = Acquired(p)))

\* a request whose ROLLBACK failed has released its connection
C9_Witness ==
    \E p \in Procs :
        /\ Done(p) /\ req[p].op \in PoolClients
        /\ Has(p, "ROLLBACK", "db_error")
        /\ Acquired(p) = 1 /\ Released(p) = 1

Transactional == {"getProfile", "updateProfile", "deleteUser"}

\* C10: in getProfile, updateProfile and deleteUser, after a statement
\* failed inside the transaction every response comes after the ROLLBACK, and
\* the tables are as they were at BEGIN (as long as no other request wrote).
C10_RollbackBeforeError ==
    \A p \in Procs :
        (Done(p) /\ req[p].op \in Transactional /\ FailedAfterBegin(p))
        => (/\ Precedes(p, LAMBDA e : e.what = "ROLLBACK", LAMBDA e : e.ev = "respond")
            /\ Status(p) \in {0, 500}
            /\ (ghost[p].clean => (users = ghost[p].snapU /\ profiles = ghost[p].snapP)))

\* updateProfile had updated the User row when the next statement failed
C10_Witness ==
    \E p \in Procs :
        /\ Done(p) /\ req[p].op = "updateProfile"
        /\ Has(p, "UPDATE users SET custom_user_id", "none")
        /\ Has(p, "UPDATE user_profiles", "db_error")
        /\ users[req[p].uid] # NoRow
        /\ ghost[p].clean /\ Status(p) = 500

====
